---- MODULE Spec2Model ----
(***************************************************************************)
(* Model of the r2048 engine: Board (src/src/game.rs), Core::is_game_over, *)
(* Core::shift / Core::do_shift, and the driver loop run() of              *)
(* src/src/lib.rs.                                                          *)
(*                                                                         *)
(* Coordinates are 0-based pairs <<row, column>> as in the source; the     *)
(* grid is a sequence of rows (Vec<Vec<Tile>>), so tiles[x + 1][y + 1] is  *)
(* the source's tiles[x][y].  An Option is a sequence of length 0 (None)   *)
(* or 1 (Some).                                                            *)
(***************************************************************************)
EXTENDS Integers, Sequences, FiniteSets, TLC

VARIABLES board, before, op, dir, traces, merges, kinds, over, steps, pc, gen, gens

vars == <<board, before, op, dir, traces, merges, kinds, over, steps, pc, gen, gens>>

(***************************************************************************)
(* Bounds of the model.                                                    *)
(***************************************************************************)
\* largest stored tile value of an enumerated starting board
MaxTile == 2
\* largest number of non-blank cells of a sparse 3x3 starting board
MaxPieces == 2
\* number of engine calls made on one starting board
MaxOps == 2
\* side of the board the driver plays on
RunSize == 2
\* number of accepted moves of one driver run
MaxRounds == 3
\* largest `times` argument of a generate call
MaxTimes == 2
\* longest flat vector passed to Board::new
MaxFlatLen == 4
\* sides of the small starting boards
SmallSizes == {2, 3}

(***************************************************************************)
(* Constants and types of game.rs.                                         *)
(***************************************************************************)
BLANK == 0

Direction == {"Up", "Down", "Left", "Right"}

None == << >>

Some(v) == << v >>

Unwrap(o) == o[1]

(***************************************************************************)
(* Board                                                                   *)
(***************************************************************************)
\* data.chunks(size).map(|x| x.to_vec()).collect()
Chunks(data, size) ==
    LET n == (Len(data) + size - 1) \div size
    IN [i \in 1..n |->
          SubSeq(data, (i - 1) * size + 1,
                 IF i * size <= Len(data) THEN i * size ELSE Len(data))]

\* vec![vec![BLANK; size]; size]
BlankTiles(size) == [i \in 1..size |-> [j \in 1..size |-> BLANK]]

\* Board::new; tiles is None or Some(flat vector)
BoardNew(size, tiles, score) ==
    [size  |-> size,
     tiles |-> IF tiles = None THEN BlankTiles(size)
               ELSE Chunks(Unwrap(tiles), size),
     score |-> score]

\* self.tiles[pos.0][pos.1]
At(b, pos) == b.tiles[pos[1] + 1][pos[2] + 1]

\* Board::get: self.tiles.get(pos.0)?.get(pos.1)
Get(b, pos) ==
    IF pos[1] + 1 \in DOMAIN b.tiles
    THEN IF pos[2] + 1 \in DOMAIN b.tiles[pos[1] + 1]
         THEN Some(b.tiles[pos[1] + 1][pos[2] + 1])
         ELSE None
    ELSE None

\* Board::set (value >= 0 is asserted by the source)
Set(b, pos, value) ==
    [b EXCEPT !.tiles[pos[1] + 1][pos[2] + 1] = value]

\* Board::next
NextCell(b, pos, direction) ==
    CASE direction = "Up"    /\ pos[1] >= 1         -> Some(<<pos[1] - 1, pos[2]>>)
      [] direction = "Down"  /\ pos[1] + 1 < b.size -> Some(<<pos[1] + 1, pos[2]>>)
      [] direction = "Left"  /\ pos[2] >= 1         -> Some(<<pos[1], pos[2] - 1>>)
      [] direction = "Right" /\ pos[2] + 1 < b.size -> Some(<<pos[1], pos[2] + 1>>)
      [] OTHER -> None

(***************************************************************************)
(* Core::is_game_over                                                      *)
(***************************************************************************)
\* VisitNeighbour that forgets to enqueue the neighbour
VisitNeighbourNoPush(b, current, d, queue) ==
    LET nx == NextCell(b, current, d)
    IN IF nx = None THEN <<FALSE, queue>>
       ELSE IF Get(b, current) = Get(b, Unwrap(nx)) THEN <<TRUE, queue>>
       ELSE <<FALSE, queue>>

\* one direction of the inner for loop: <<returned false, queue>>
VisitNeighbour(b, current, d, queue) ==
    LET nx == NextCell(b, current, d)
    IN IF nx = None THEN <<FALSE, queue>>
       ELSE IF Get(b, current) = Get(b, Unwrap(nx)) THEN <<TRUE, queue>>
       ELSE <<FALSE, Append(queue, Unwrap(nx))>>

RECURSIVE GameOverLoop(_, _)
\* the while loop over the worklist
GameOverLoop(b, queue) ==
    IF queue = << >> THEN TRUE
    ELSE LET current == Head(queue)
             q0 == Tail(queue)
         IN IF Get(b, current) = Some(BLANK) THEN FALSE
            ELSE LET r == VisitNeighbour(b, current, "Right", q0)
                 IN IF r[1] THEN FALSE
                    ELSE LET s == VisitNeighbour(b, current, "Down", r[2])
                         IN IF s[1] THEN FALSE
                            ELSE GameOverLoop(b, s[2])

is_game_over(b) == GameOverLoop(b, << <<0, 0>> >>)

(***************************************************************************)
(* Core::do_shift and Core::shift.                                         *)
(* A walk state st is a record                                             *)
(*   board, traces : as in the source                                      *)
(*   merges : one record per executed merge branch: the operand value v,   *)
(*            the two cells, and whether an operand was itself the result  *)
(*            of a merge made earlier in the same shift call               *)
(*   fresh  : the cells that hold a tile made by a merge of this call      *)
(*   kinds  : for every trace, in order, the branch that pushed it         *)
(***************************************************************************)
Pow2(n) == 2 ^ n

\* SlideStep that records no trace
SlideStepNoTrace(st, tile, next_tile, tile_val, no_swapped) ==
    [st EXCEPT
       !.board  = Set(Set(st.board, next_tile, tile_val), tile, BLANK),
       !.fresh  = IF tile \in st.fresh
                  THEN (st.fresh \ {tile}) \cup {next_tile}
                  ELSE st.fresh]

\* SlideStep that pushes a trace for every cell crossed
SlideStepNoCoalesce(st, tile, next_tile, tile_val, no_swapped) ==
    [st EXCEPT
       !.board  = Set(Set(st.board, next_tile, tile_val), tile, BLANK),
       !.traces = Append(st.traces, <<tile, next_tile>>),
       !.kinds  = Append(st.kinds, "slide"),
       !.fresh  = IF tile \in st.fresh
                  THEN (st.fresh \ {tile}) \cup {next_tile}
                  ELSE st.fresh]

\* SlideStep that records the trace after advancing to next_tile
SlideStepTraceAfterAdvance(st, tile, next_tile, tile_val, no_swapped) ==
    [st EXCEPT
       !.board  = Set(Set(st.board, next_tile, tile_val), tile, BLANK),
       !.traces = IF no_swapped
                  THEN Append(SubSeq(st.traces, 1, Len(st.traces) - 1),
                              <<st.traces[Len(st.traces)][1], next_tile>>)
                  ELSE Append(st.traces, <<next_tile, next_tile>>),
       !.kinds  = IF no_swapped THEN st.kinds ELSE Append(st.kinds, "slide"),
       !.fresh  = IF tile \in st.fresh
                  THEN (st.fresh \ {tile}) \cup {next_tile}
                  ELSE st.fresh]

\* SlideStep that leaves the tile in the cell it moved from
SlideStepKeepsSource(st, tile, next_tile, tile_val, no_swapped) ==
    [st EXCEPT
       !.board  = Set(st.board, next_tile, tile_val),
       !.traces = IF no_swapped
                  THEN Append(SubSeq(st.traces, 1, Len(st.traces) - 1),
                              <<st.traces[Len(st.traces)][1], next_tile>>)
                  ELSE Append(st.traces, <<tile, next_tile>>),
       !.kinds  = IF no_swapped THEN st.kinds ELSE Append(st.kinds, "slide"),
       !.fresh  = IF tile \in st.fresh
                  THEN (st.fresh \ {tile}) \cup {next_tile}
                  ELSE st.fresh]

\* the slide branch (next_tile_val == BLANK)
SlideStep(st, tile, next_tile, tile_val, no_swapped) ==
    [st EXCEPT
       !.board  = Set(Set(st.board, next_tile, tile_val), tile, BLANK),
       !.traces = IF no_swapped
                  THEN Append(SubSeq(st.traces, 1, Len(st.traces) - 1),
                              <<st.traces[Len(st.traces)][1], next_tile>>)
                  ELSE Append(st.traces, <<tile, next_tile>>),
       !.kinds  = IF no_swapped THEN st.kinds ELSE Append(st.kinds, "slide"),
       !.fresh  = IF tile \in st.fresh
                  THEN (st.fresh \ {tile}) \cup {next_tile}
                  ELSE st.fresh]

\* MergeGain that shifts by tile_val only
MergeGainHalf(tile_val) == Pow2(tile_val)

\* board.score += 1 << (tile_val + 1)
MergeGain(tile_val) == Pow2(tile_val + 1)

\* MergeStep that leaves two equal tiles where they are
MergeStepBlocked(st, tile, next_tile, tile_val) == st

\* MergeStep that writes tile_val instead of tile_val + 1
MergeStepKeepsValue(st, tile, next_tile, tile_val) ==
    [st EXCEPT
       !.board  = [Set(Set(st.board, next_tile, tile_val), tile, BLANK)
                     EXCEPT !.score = st.board.score + Pow2(tile_val + 1)],
       !.traces = Append(st.traces, <<tile, next_tile>>),
       !.kinds  = Append(st.kinds, "merge"),
       !.merges = Append(st.merges,
                         [v |-> tile_val, from |-> tile, to |-> next_tile,
                          again |-> (tile \in st.fresh) \/ (next_tile \in st.fresh)]),
       !.fresh  = (st.fresh \ {tile}) \cup {next_tile}]

\* MergeStep that pushes no trace
MergeStepNoTrace(st, tile, next_tile, tile_val) ==
    [st EXCEPT
       !.board  = [Set(Set(st.board, next_tile, tile_val + 1), tile, BLANK)
                     EXCEPT !.score = st.board.score + Pow2(tile_val + 1)],
       !.merges = Append(st.merges,
                         [v |-> tile_val, from |-> tile, to |-> next_tile,
                          again |-> (tile \in st.fresh) \/ (next_tile \in st.fresh)]),
       !.fresh  = (st.fresh \ {tile}) \cup {next_tile}]

\* the merge branch (tile_val == next_tile_val)
MergeStep(st, tile, next_tile, tile_val) ==
    [st EXCEPT
       !.board  = [Set(Set(st.board, next_tile, tile_val + 1), tile, BLANK)
                     EXCEPT !.score = st.board.score + MergeGain(tile_val)],
       !.traces = Append(st.traces, <<tile, next_tile>>),
       !.kinds  = Append(st.kinds, "merge"),
       !.merges = Append(st.merges,
                         [v |-> tile_val, from |-> tile, to |-> next_tile,
                          again |-> (tile \in st.fresh) \/ (next_tile \in st.fresh)]),
       !.fresh  = (st.fresh \ {tile}) \cup {next_tile}]

RECURSIVE DoShiftStopsAfterSlide(_, _, _, _)
\* DoShiftLoop that returns after moving a tile by one cell
DoShiftStopsAfterSlide(st, tile, no_swapped, direction) ==
    LET nx == NextCell(st.board, tile, direction)
    IN IF nx = None THEN st
       ELSE LET next_tile == Unwrap(nx)
                tile_val == Unwrap(Get(st.board, tile))
                next_tile_val == Unwrap(Get(st.board, next_tile))
            IN IF tile_val # BLANK /\ next_tile_val = BLANK
               THEN SlideStep(st, tile, next_tile, tile_val, no_swapped)
               ELSE IF tile_val # BLANK /\ tile_val = next_tile_val
               THEN DoShiftStopsAfterSlide(MergeStep(st, tile, next_tile, tile_val),
                                           next_tile, FALSE, direction)
               ELSE DoShiftStopsAfterSlide(st, next_tile, no_swapped, direction)

RECURSIVE DoShiftStopsAfterMerge(_, _, _, _)
\* DoShiftLoop that returns after a merge
DoShiftStopsAfterMerge(st, tile, no_swapped, direction) ==
    LET nx == NextCell(st.board, tile, direction)
    IN IF nx = None THEN st
       ELSE LET next_tile == Unwrap(nx)
                tile_val == Unwrap(Get(st.board, tile))
                next_tile_val == Unwrap(Get(st.board, next_tile))
            IN IF tile_val # BLANK /\ next_tile_val = BLANK
               THEN DoShiftStopsAfterMerge(
                        SlideStep(st, tile, next_tile, tile_val, no_swapped),
                        next_tile, TRUE, direction)
               ELSE IF tile_val # BLANK /\ tile_val = next_tile_val
               THEN MergeStep(st, tile, next_tile, tile_val)
               ELSE DoShiftStopsAfterMerge(st, next_tile, no_swapped, direction)

RECURSIVE DoShiftLoop(_, _, _, _)
\* the loop of do_shift; st.traces is the local trace vector
DoShiftLoop(st, tile, no_swapped, direction) ==
    LET nx == NextCell(st.board, tile, direction)
    IN IF nx = None THEN st
       ELSE LET next_tile == Unwrap(nx)
                tile_val == Unwrap(Get(st.board, tile))
                next_tile_val == Unwrap(Get(st.board, next_tile))
            IN IF tile_val # BLANK /\ next_tile_val = BLANK
               THEN DoShiftLoop(SlideStep(st, tile, next_tile, tile_val, no_swapped),
                                next_tile, TRUE, direction)
               ELSE IF tile_val # BLANK /\ tile_val = next_tile_val
               THEN DoShiftLoop(MergeStep(st, tile, next_tile, tile_val),
                                next_tile, FALSE, direction)
               ELSE DoShiftLoop(st, next_tile, no_swapped, direction)

\* do_shift from one starting cell; returns the walk state whose traces are
\* the traces of this call only
do_shift(st, tile, direction) ==
    DoShiftLoop([st EXCEPT !.traces = << >>, !.kinds = << >>],
                tile, FALSE, direction)

\* SweepCell that starts every lane at the edge opposite to the direction
SweepCellFarEdgeFirst(size, direction, k) ==
    LET outer == (k - 1) \div size
        inner == (k - 1) % size
    IN CASE direction = "Right" -> <<outer, inner>>
         [] direction = "Down"  -> <<inner, outer>>
         [] direction = "Up"    -> <<size - 1 - inner, outer>>
         [] direction = "Left"  -> <<outer, size - 1 - inner>>

\* the order in which shift visits the starting cells, k = 1..size*size
SweepCell(size, direction, k) ==
    LET outer == (k - 1) \div size
        inner == (k - 1) % size
    IN CASE direction = "Right" -> <<outer, size - 1 - inner>>
         [] direction = "Down"  -> <<size - 1 - inner, outer>>
         [] direction = "Up"    -> <<inner, outer>>
         [] direction = "Left"  -> <<outer, inner>>

RECURSIVE ShiftFrom(_, _, _)
\* the nested for loops of shift, from the k-th starting cell on
ShiftFrom(st, direction, k) ==
    IF k > st.board.size * st.board.size THEN st
    ELSE LET t == do_shift(st, SweepCell(st.board.size, direction, k), direction)
         IN ShiftFrom([t EXCEPT !.traces = st.traces \o t.traces,
                                !.kinds  = st.kinds \o t.kinds],
                      direction, k + 1)

\* Core::shift: the board after the call, the returned traces, the merges made
shift(b, direction) ==
    ShiftFrom([board |-> b, traces |-> << >>, merges |-> << >>, fresh |-> {},
               kinds |-> << >>],
              direction, 1)

(***************************************************************************)
(* Starting boards of the engine specification.                            *)
(***************************************************************************)
Tiles == 0..MaxTile

\* flat vectors of size*size tiles
FlatVectors(size) == [1..(size * size) -> Tiles]

Pieces(data) == Cardinality({i \in DOMAIN data : data[i] # BLANK})

\* every 2x2 board, and the 3x3 boards with few tiles
SmallBoards ==
    UNION {{BoardNew(s, Some(d), 0) :
              d \in {e \in FlatVectors(s) : s = 2 \/ Pieces(e) <= MaxPieces}} :
           s \in SmallSizes}

\* Board::new(4, ..) of lib.rs and of the tests
BoardSide == 4

\* 4x4 boards with one arbitrary row, and their transposes (one arbitrary column)
LaneBoards ==
    UNION {{BoardNew(BoardSide,
                     Some([k \in 1..(BoardSide * BoardSide) |->
                             LET x == (k - 1) \div BoardSide
                                 y == (k - 1) % BoardSide
                             IN IF (IF byRow THEN x ELSE y) = lane
                                THEN cells[(IF byRow THEN y ELSE x) + 1]
                                ELSE BLANK]),
                     0) :
              cells \in [1..BoardSide -> Tiles], lane \in 0..(BoardSide - 1)} :
           byRow \in BOOLEAN}

\* the board of tests::test_shift
ScenarioA == << 1, 0, 0, 0,
               1, 0, 1, 1,
               1, 0, 1, 2,
               0, 0, 0, 0 >>

\* the first board of tests::test_game_over
ScenarioC == << 1, 2, 3, 4,
               4, 3, 2, 1,
               1, 2, 3, 4,
               4, 3, 2, 1 >>

\* the second board of tests::test_game_over
ScenarioD == << 1, 2, 3, 4,
               4, 3, 2, 1,
               1, 2, 3, 4,
               4, 3, 2, 4 >>

\* the boards of the tests, and ScenarioC with any one cell overwritten
TestBoards ==
    {BoardNew(BoardSide, Some(ScenarioA), s) : s \in {0, 7}}
    \cup {BoardNew(BoardSide, Some([ScenarioC EXCEPT ![k] = v]), 0) :
            k \in 1..(BoardSide * BoardSide), v \in 0..4}
    \cup {BoardNew(BoardSide, None, 0)}

InitBoards == SmallBoards \cup LaneBoards \cup TestBoards

\* the arguments of a generate call and the placements still to make
NoCall == [times |-> 0, lo |-> 0, hi |-> 0, left |-> 0]

(***************************************************************************)
(* Engine specification: a caller holding one board calls shift and        *)
(* is_game_over on it.                                                     *)
(***************************************************************************)
Init ==
    /\ board \in InitBoards
    /\ before = board
    /\ op = "new"
    /\ dir = "Up"
    /\ traces = << >>
    /\ merges = << >>
    /\ kinds = << >>
    /\ over = FALSE
    /\ steps = 0
    /\ pc = "api"
    /\ gen = NoCall
    /\ gens = 0

\* traces = core.shift(&mut board, &d)
Shift ==
    /\ pc = "api"
    /\ steps < MaxOps
    /\ \E d \in Direction :
         LET r == shift(board, d)
         IN /\ board' = r.board
            /\ traces' = r.traces
            /\ merges' = r.merges
            /\ kinds' = r.kinds
            /\ dir' = d
    /\ before' = board
    /\ op' = "shift"
    /\ steps' = steps + 1
    /\ UNCHANGED <<over, pc, gen, gens>>

\* over = core.is_game_over(&board)
IsGameOver ==
    /\ pc = "api"
    /\ steps < MaxOps
    /\ over' = is_game_over(board)
    /\ before' = board
    /\ op' = "is_game_over"
    /\ steps' = steps + 1
    /\ UNCHANGED <<board, dir, traces, merges, kinds, pc, gen, gens>>

Next == Shift \/ IsGameOver

Spec == Init /\ [][Next]_vars

(***************************************************************************)
(* Board::generate, one pass of its inner loop: the sampled cell <<x, y>>  *)
(* is written with the sampled value when it is blank (Some(board)),       *)
(* otherwise the loop samples again (None).                                *)
(***************************************************************************)
\* GenerateSample with an inclusive upper end of the range
GenerateSampleInclusive(b, x, y, value) ==
    IF At(b, <<x, y>>) = BLANK THEN Some(Set(b, <<x, y>>, value + 1)) ELSE None

\* GenerateSample that does not test the sampled cell
GenerateSampleOverwrite(b, x, y, value) == Some(Set(b, <<x, y>>, value))

GenerateSample(b, x, y, value) ==
    IF At(b, <<x, y>>) = BLANK THEN Some(Set(b, <<x, y>>, value)) ELSE None

(***************************************************************************)
(* Generate specification: one call board.generate(times, lo..hi).  pc is  *)
(* "gen" inside the call and "returned" after it; gen.left is the number   *)
(* of passes of the for loop still to run, before the board at the call.   *)
(* A sampling that hits a non-blank cell leaves the state as it is; the    *)
(* uniform sampler hits a blank cell with probability 1 when there is one, *)
(* which the weak fairness of GenSample states.                            *)
(***************************************************************************)
\* the ranges lo..hi of the calls
Scopes == {<<1, 3>>, <<2, 3>>, <<0, 2>>}

GenBoards == {b \in SmallBoards : b.size = 2} \cup TestBoards

GenInit ==
    /\ board \in GenBoards
    /\ before = board
    /\ op = "new"
    /\ dir = "Up"
    /\ traces = << >>
    /\ merges = << >>
    /\ kinds = << >>
    /\ over = FALSE
    /\ steps = 0
    /\ pc = "gen"
    /\ gen \in {[times |-> t, lo |-> sc[1], hi |-> sc[2], left |-> t] :
                   t \in 0..MaxTimes, sc \in Scopes}
    /\ gens = 0

\* one pass of the inner loop of generate
GenSample ==
    /\ pc = "gen"
    /\ gen.left > 0
    /\ \E x \in 0..(board.size - 1), y \in 0..(board.size - 1),
          value \in gen.lo..(gen.hi - 1) :
         LET g == GenerateSample(board, x, y, value)
         IN IF g = None
            THEN UNCHANGED <<board, gen, gens>>
            ELSE /\ board' = Unwrap(g)
                 /\ gen' = [gen EXCEPT !.left = gen.left - 1]
                 /\ gens' = gens + 1
    /\ UNCHANGED <<before, op, dir, traces, merges, kinds, over, steps, pc>>

\* the for loop of generate is exhausted
GenReturn ==
    /\ pc = "gen"
    /\ gen.left = 0
    /\ pc' = "returned"
    /\ op' = "generate"
    /\ UNCHANGED <<board, before, dir, traces, merges, kinds, over, steps, gen, gens>>

GenNext == GenSample \/ GenReturn

Gen == GenInit /\ [][GenNext]_vars /\ WF_vars(GenSample) /\ WF_vars(GenReturn)

(***************************************************************************)
(* The driver run() of lib.rs.  pc is the place in run():                  *)
(*   "while"    the test of  while !core.is_game_over(&board)              *)
(*   "generate" board.generate(1, 1..3)                                    *)
(*   "input"    the inner loop: read a line, shift, test the traces        *)
(*   "exit"     after the while loop                                       *)
(* steps counts the accepted moves.                                        *)
(***************************************************************************)
Keys == {"w", "a", "s", "d", "x"}

\* the match on the trimmed, lower-cased line; None is the `_` arm
KeyDirection(key) ==
    CASE key = "w" -> Some("Up")
      [] key = "a" -> Some("Left")
      [] key = "s" -> Some("Down")
      [] key = "d" -> Some("Right")
      [] OTHER -> None

\* IsEmpty that takes every trace list for a non-empty one
IsEmptyNever(tr) == FALSE

\* traces.is_empty()
IsEmpty(tr) == tr = << >>

RunInit ==
    /\ board = BoardNew(RunSize, None, 0)
    /\ before = board
    /\ op = "new"
    /\ dir = "Up"
    /\ traces = << >>
    /\ merges = << >>
    /\ kinds = << >>
    /\ over = FALSE
    /\ steps = 0
    /\ pc = "while"
    /\ gen = NoCall
    /\ gens = 0

\* while !core.is_game_over(&board)
RunWhile ==
    /\ pc = "while"
    /\ over' = is_game_over(board)
    /\ pc' = IF over' THEN "exit" ELSE "generate"
    /\ op' = "is_game_over"
    /\ before' = board
    /\ UNCHANGED <<board, dir, traces, merges, kinds, steps, gen, gens>>

\* board.generate(1, 1..3): one sample of a cell and of a value
RunGenerate ==
    /\ pc = "generate"
    /\ \E x \in 0..(board.size - 1), y \in 0..(board.size - 1), value \in 1..2 :
         LET g == GenerateSample(board, x, y, value)
         IN IF g = None
            THEN UNCHANGED <<board, before, op, pc, gens>>
            ELSE /\ board' = Unwrap(g)
                 /\ before' = board
                 /\ op' = "generate"
                 /\ pc' = "input"
                 /\ gens' = gens + 1
    /\ UNCHANGED <<dir, traces, merges, kinds, over, steps, gen>>

\* one pass of the inner loop
RunInput ==
    /\ pc = "input"
    /\ steps < MaxRounds
    /\ \E key \in Keys :
         LET k == KeyDirection(key)
         IN IF k = None
            THEN UNCHANGED <<board, before, op, dir, traces, merges, kinds, steps, pc>>
            ELSE LET r == shift(board, Unwrap(k))
                 IN /\ board' = r.board
                    /\ traces' = r.traces
                    /\ merges' = r.merges
                    /\ kinds' = r.kinds
                    /\ dir' = Unwrap(k)
                    /\ before' = board
                    /\ op' = "shift"
                    /\ steps' = IF r.traces = << >> THEN steps ELSE steps + 1
                    /\ pc' = IF IsEmpty(r.traces) THEN "input" ELSE "while"
    /\ UNCHANGED <<over, gen, gens>>

RunNext == RunWhile \/ RunGenerate \/ RunInput

Run == RunInit /\ [][RunNext]_vars

(***************************************************************************)
(* Construction specification: a caller holding a blank board builds one   *)
(* more with Board::new, from no tiles or from a flat vector of any length *)
(* up to MaxFlatLen.                                                       *)
(***************************************************************************)
\* the flat vectors a caller can pass as Some(data)
FlatData == UNION {[1..n -> Tiles] : n \in 0..MaxFlatLen}

\* let board = Board::new(size, None, 0)
NewInit ==
    /\ board \in {BoardNew(size, None, 0) : size \in SmallSizes}
    /\ before = board
    /\ op = "new"
    /\ dir = "Up"
    /\ traces = << >>
    /\ merges = << >>
    /\ kinds = << >>
    /\ over = FALSE
    /\ steps = 0
    /\ pc = "new"
    /\ gen = NoCall
    /\ gens = 0

\* board = Board::new(size, None, score)
NewBlank ==
    /\ pc = "new"
    /\ \E size \in SmallSizes, score \in 0..1 :
         board' = BoardNew(size, None, score)
    /\ before' = board
    /\ op' = "new"
    /\ pc' = "api"
    /\ UNCHANGED <<dir, traces, merges, kinds, over, steps, gen, gens>>

\* board = Board::new(size, Some(data), score)
NewFromTiles ==
    /\ pc = "new"
    /\ \E size \in SmallSizes, data \in FlatData, score \in 0..1 :
         board' = BoardNew(size, Some(data), score)
    /\ before' = board
    /\ op' = "new"
    /\ pc' = "api"
    /\ UNCHANGED <<dir, traces, merges, kinds, over, steps, gen, gens>>

NewNext == NewBlank \/ NewFromTiles

New == NewInit /\ [][NewNext]_vars

(***************************************************************************)
(* Vocabulary of the properties.                                           *)
(***************************************************************************)
Cells(b) == (0..(b.size - 1)) \X (0..(b.size - 1))

HasTile(b) == \E c \in Cells(b) : At(b, c) # BLANK

\* every cell non-zero and no two orthogonally adjacent cells equal
Terminal(b) ==
    \A c \in Cells(b) :
        /\ At(b, c) # BLANK
        /\ c[2] + 1 < b.size => At(b, c) # At(b, <<c[1], c[2] + 1>>)
        /\ c[1] + 1 < b.size => At(b, c) # At(b, <<c[1] + 1, c[2]>>)

RECURSIVE SumGain(_)
\* the sum of 2^(v+1) over a sequence of merges
SumGain(ms) ==
    IF ms = << >> THEN 0 ELSE Pow2(Head(ms).v + 1) + SumGain(Tail(ms))

RECURSIVE SumOver(_, _)
SumOver(b, cs) ==
    IF cs = {} THEN 0
    ELSE LET c == CHOOSE e \in cs : TRUE
         IN (IF At(b, c) = BLANK THEN 0 ELSE Pow2(At(b, c))) + SumOver(b, cs \ {c})

\* the sum of the displayed values 2^v over the non-zero cells
Displayed(b) == SumOver(b, Cells(b))

NoMoveChanges(b) == \A d \in Direction : shift(b, d).board = b

\* the cells of lane l, from the edge opposite to d to the d edge
LaneCells(size, d, l) ==
    [i \in 1..size |->
        CASE d = "Right" -> <<l, i - 1>>
          [] d = "Left"  -> <<l, size - i>>
          [] d = "Down"  -> <<i - 1, l>>
          [] d = "Up"    -> <<size - i, l>>]

Lane(b, d, l) == [i \in 1..b.size |-> At(b, LaneCells(b.size, d, l)[i])]

InLane(size, d, l, pos) == \E i \in 1..size : LaneCells(size, d, l)[i] = pos

ResultA == << 0, 0, 0, 1,
             0, 0, 1, 2,
             0, 0, 0, 3,
             0, 0, 0, 0 >>

ResultB == << 0, 0, 0, 0,
             0, 0, 0, 1,
             0, 0, 0, 2,
             0, 0, 1, 3 >>

(***************************************************************************)
(* C1: is_game_over(B) is true iff every cell of B is non-zero and no two  *)
(* horizontally or vertically adjacent cells hold the same value; the      *)
(* worklist visits every cell.                                             *)
(***************************************************************************)
C1_GameOverIffTerminal ==
    op = "is_game_over" => (over <=> Terminal(before))

\* a 4x4 board that differs from a terminal one in its last cell only
C1_Witness ==
    /\ op = "is_game_over"
    /\ ~over
    /\ before.size = BoardSide
    /\ before.tiles = Chunks(ScenarioD, BoardSide)

(***************************************************************************)
(* C2: within one shift, a tile produced by a merge of that call is never  *)
(* an operand of another merge of the same call.                           *)
(***************************************************************************)
C2_MergeOnce ==
    op = "shift" => \A i \in DOMAIN merges : ~merges[i].again

(***************************************************************************)
(* C3: shift returns an empty trace list iff the board (tiles and score)   *)
(* after the call equals the board before it.                              *)
(***************************************************************************)
C3_EmptyTracesIffUnchanged ==
    op = "shift" => (traces = << >> <=> board = before)

\* a shift of a board with tiles that moves nothing
C3_Witness ==
    /\ op = "shift"
    /\ traces = << >>
    /\ HasTile(before)
    /\ \E c \in Cells(before) : At(before, c) = BLANK

(***************************************************************************)
(* C4: shift adds to score exactly the sum of 2^(v+1) over the merges it   *)
(* performs; without merges the score is unchanged; score never decreases. *)
(***************************************************************************)
C4_ScoreGain ==
    op = "shift" =>
        /\ board.score = before.score + SumGain(merges)
        /\ merges = << >> => board.score = before.score
        /\ board.score >= before.score

\* a shift with merges of two different values
C4_Witness ==
    /\ op = "shift"
    /\ \E i, j \in DOMAIN merges : merges[i].v # merges[j].v

(***************************************************************************)
(* C6 as stated: for every constructible board, the blank one included,    *)
(* is_game_over(B) is true iff no shift changes B.                         *)
(***************************************************************************)
C6_GameOverIffNoMove ==
    op = "is_game_over" => (over <=> NoMoveChanges(before))

(***************************************************************************)
(* C6 amended: for every board with at least one non-zero tile,            *)
(* is_game_over(B) is true iff no shift changes B; on an all-zero board    *)
(* is_game_over is false although no shift changes the board.              *)
(***************************************************************************)
C6_GameOverIffNoMoveWithTile ==
    op = "is_game_over" =>
        IF HasTile(before)
        THEN over <=> NoMoveChanges(before)
        ELSE ~over /\ NoMoveChanges(before)

\* a board without a blank cell on which a move is still possible
C6_Witness ==
    /\ op = "is_game_over"
    /\ ~over
    /\ \A c \in Cells(before) : At(before, c) # BLANK
    /\ ~NoMoveChanges(before)

(***************************************************************************)
(* C7 as stated: the sum of the displayed values 2^v over the non-zero     *)
(* cells changes across one shift by exactly the sum of 2^(v+1) over the   *)
(* merges of that shift.                                                   *)
(***************************************************************************)
C7_DisplayedSumGrows ==
    op = "shift" => Displayed(board) = Displayed(before) + SumGain(merges)

(***************************************************************************)
(* C7 amended: the sum of the displayed values 2^v over the non-zero cells *)
(* is the same before and after every shift, whether it merges or not.     *)
(***************************************************************************)
C7_DisplayedSumKept ==
    op = "shift" => Displayed(board) = Displayed(before)

\* a shift that merges
C7_Witness ==
    /\ op = "shift"
    /\ merges # << >>
    /\ board.score > before.score

(***************************************************************************)
(* C8: after shift(B, d) no non-zero cell has an empty neighbour in        *)
(* direction d; the board of test_shift becomes ResultA under Right and    *)
(* that result becomes ResultB under a following Down.                     *)
(***************************************************************************)
C8_SlidesAllTheWay ==
    op = "shift" =>
        /\ \A c \in Cells(board) :
              At(board, c) # BLANK /\ NextCell(board, c, dir) # None
                  => At(board, Unwrap(NextCell(board, c, dir))) # BLANK
        /\ before.tiles = Chunks(ScenarioA, BoardSide) /\ dir = "Right"
              => board.tiles = Chunks(ResultA, BoardSide)
        /\ before.tiles = Chunks(ResultA, BoardSide) /\ dir = "Down"
              => board.tiles = Chunks(ResultB, BoardSide)

\* the second shift of test_shift
C8_Witness ==
    /\ op = "shift"
    /\ steps = 2
    /\ dir = "Down"
    /\ before.tiles = Chunks(ResultA, BoardSide)
    /\ board.tiles = Chunks(ResultB, BoardSide)

(***************************************************************************)
(* C9 as stated: shift(Right) on the board of Scenario A with score s      *)
(* leaves the score at exactly s + 12.                                     *)
(***************************************************************************)
C9_ScenarioAScore12 ==
    op = "shift" /\ dir = "Right" /\ before.tiles = Chunks(ScenarioA, BoardSide)
        => board.score = before.score + 12

(***************************************************************************)
(* C9 amended: shift(Right) on the board of Scenario A with score s leaves *)
(* the score at exactly s + 16 (2^2 in the second row, 2^2 + 2^3 in the    *)
(* third).                                                                 *)
(***************************************************************************)
C9_ScenarioAScore16 ==
    op = "shift" /\ dir = "Right" /\ before.tiles = Chunks(ScenarioA, BoardSide)
        => /\ board.score = before.score + 16
           /\ [i \in DOMAIN merges |-> merges[i].v] = <<1, 1, 2>>

\* Scenario A shifted Right from a non-zero score
C9_Witness ==
    /\ op = "shift"
    /\ dir = "Right"
    /\ before.tiles = Chunks(ScenarioA, BoardSide)
    /\ before.score = 7

(***************************************************************************)
(* C10: a lane reading v v v 0 from the far edge toward the d edge reads   *)
(* 0 0 v v+1 after shift(d), and the merges of that lane add exactly       *)
(* 2^(v+1) to the score.                                                   *)
(***************************************************************************)
C10_MergeNearestEdgeFirst ==
    op = "shift" /\ before.size = BoardSide =>
        \A l \in 0..(BoardSide - 1) :
            LET v == Lane(before, dir, l)[1]
            IN v >= 1 /\ Lane(before, dir, l) = <<v, v, v, 0>> =>
                 /\ Lane(board, dir, l) = <<0, 0, v, v + 1>>
                 /\ SumGain(SelectSeq(merges,
                        LAMBDA m : InLane(BoardSide, dir, l, m.to))) = Pow2(v + 1)
                 /\ (\A k \in 0..(BoardSide - 1) :
                        k # l => Lane(before, dir, k) = <<0, 0, 0, 0>>)
                      => board.score = before.score + Pow2(v + 1)

\* a column reading v v v 0 toward the top edge, shifted Up
C10_Witness ==
    /\ op = "shift"
    /\ dir = "Up"
    /\ before.size = BoardSide
    /\ \E l \in 0..(BoardSide - 1) : Lane(before, dir, l) = <<2, 2, 2, 0>>

(***************************************************************************)
(* C5: the driver exits when the game is over: once an accepted move and   *)
(* the seeding of one tile yield a board on which is_game_over is true,    *)
(* run() leaves its loop instead of waiting for further input.             *)
(***************************************************************************)
C5_NoInputWhenGameOver ==
    pc = "input" => ~is_game_over(board)

(***************************************************************************)
(* Vocabulary of the trace properties.                                     *)
(***************************************************************************)
\* cell to lies one or more cells from cell from in direction d
Toward(from, to, d) ==
    CASE d = "Right" -> from[1] = to[1] /\ from[2] < to[2]
      [] d = "Left"  -> from[1] = to[1] /\ from[2] > to[2]
      [] d = "Down"  -> from[2] = to[2] /\ from[1] < to[1]
      [] d = "Up"    -> from[2] = to[2] /\ from[1] > to[1]

\* the traces pushed by the merge branch, in order
MergeTraces == SelectSeq([i \in DOMAIN traces |-> <<traces[i], kinds[i]>>],
                         LAMBDA e : e[2] = "merge")

\* the 4x4 board whose row r reads 0 0 0 2, all other cells blank
RowE(r) ==
    Chunks([k \in 1..(BoardSide * BoardSide) |->
              IF k = r * BoardSide + BoardSide THEN 2 ELSE BLANK], BoardSide)

(***************************************************************************)
(* C11: in one shift a tile that slides across one or more empty cells     *)
(* gets exactly one slide trace, from its starting cell to the cell where  *)
(* its slide ended, and each merge gets a trace of its own from the cell   *)
(* next to the merge site to the merge site; a row 0 0 0 2 shifted Left    *)
(* yields the single trace ((r,3),(r,0)).                                  *)
(***************************************************************************)
C11_TraceCoalescing ==
    op = "shift" =>
        /\ Len(kinds) = Len(traces)
        \* one trace per merge, from the neighbour cell to the merge site
        /\ Len(MergeTraces) = Len(merges)
        /\ \A i \in DOMAIN merges :
              /\ MergeTraces[i][1] = <<merges[i].from, merges[i].to>>
              /\ NextCell(before, merges[i].from, dir) = Some(merges[i].to)
        \* one trace per sliding tile: it starts on a tile of the board as it
        \* was, no other slide trace starts there, and it does not continue a
        \* journey that an earlier trace ended
        /\ \A j \in DOMAIN traces :
              kinds[j] = "slide" =>
                 /\ Toward(traces[j][1], traces[j][2], dir)
                 /\ At(before, traces[j][1]) # BLANK
                 /\ \A i \in DOMAIN traces :
                       i # j /\ kinds[i] = "slide" => traces[i][1] # traces[j][1]
                 /\ \A i \in 1..(j - 1) : traces[i][2] # traces[j][1]
        /\ \A r \in 0..(BoardSide - 1) :
              before.tiles = RowE(r) /\ dir = "Left"
                 => traces = << <<<<r, 3>>, <<r, 0>>>> >>

\* a tile that crossed two empty cells and then merged
C11_Witness ==
    /\ op = "shift"
    /\ \E j \in DOMAIN traces :
          /\ kinds[j] = "slide"
          /\ j + 1 \in DOMAIN traces
          /\ kinds[j + 1] = "merge"
          /\ traces[j + 1][1] = traces[j][2]
          /\ \E c \in Cells(before) :
                /\ Toward(traces[j][1], c, dir)
                /\ Toward(c, traces[j][2], dir)

\* the indices of the traces that end in cell c
TracesTo(c) == {i \in DOMAIN traces : traces[i][2] = c}

\* the non-zero cells whose content differs from their content before the call
ChangedTiles == {c \in Cells(board) : At(board, c) # BLANK /\ At(board, c) # At(before, c)}

(***************************************************************************)
(* C12 as stated: after one shift every non-zero cell whose content        *)
(* differs from its pre-move content is the destination of exactly one     *)
(* trace of the returned list.                                             *)
(***************************************************************************)
C12_ExactlyOneTraceTo ==
    op = "shift" => \A c \in ChangedTiles : Cardinality(TracesTo(c)) = 1

(***************************************************************************)
(* C12 amended: after one shift every non-zero cell whose content differs  *)
(* from its pre-move content is the destination of at least one trace of   *)
(* the returned list (of more than one when a tile slid into the cell and  *)
(* another tile was then merged into it).                                  *)
(***************************************************************************)
C12_SomeTraceTo ==
    op = "shift" => \A c \in ChangedTiles : TracesTo(c) # {}

\* a cell reached by a slide and then by a merge
C12_Witness ==
    /\ op = "shift"
    /\ \E c \in ChangedTiles :
          \E i, j \in TracesTo(c) : kinds[i] = "slide" /\ kinds[j] = "merge"

(***************************************************************************)
(* C13: in the driver a tile is seeded only after an accepted move:        *)
(* between two consecutive generate calls there is exactly one shift that  *)
(* returned traces, and an invalid input or a shift without traces         *)
(* re-prompts without calling generate and without changing the board.     *)
(* gens counts the tiles seeded, steps the shifts that returned traces.    *)
(***************************************************************************)
C13_SeedOnlyAfterAcceptedMove ==
    /\ [](/\ pc = "input" => gens = steps + 1
          /\ pc \in {"while", "generate", "exit"} => gens = steps)
    /\ [][/\ gens' # gens => pc = "generate" /\ gens' = gens + 1
          /\ pc = "input" /\ pc' = "input" => board' = board /\ gens' = gens
          /\ pc = "input" /\ pc' # "input" => traces' # << >> /\ steps' = steps + 1
          /\ board' # board => gens' = gens + 1 \/ (pc = "input" /\ traces' # << >>)
       ]_vars

\* the driver asks again after a shift that returned no trace, two tiles seeded
C13_Witness ==
    /\ pc = "input"
    /\ op = "shift"
    /\ traces = << >>
    /\ board = before
    /\ gens = 2

(***************************************************************************)
(* Vocabulary of the generate properties.                                  *)
(***************************************************************************)
Blanks(b) == Cardinality({c \in Cells(b) : At(b, c) = BLANK})

\* the cells whose content differs from their content at the call
ChangedCells == {c \in Cells(board) : At(board, c) # At(before, c)}

(***************************************************************************)
(* C14: generate(times, [lo, hi)) with lo >= 1 on a board with at least    *)
(* `times` empty cells changes, on return, exactly `times` cells, each 0   *)
(* before the call and in [lo, hi) after it; the cells that were non-zero, *)
(* the size and the score are unchanged.                                   *)
(***************************************************************************)
C14_GenerateFrame ==
    pc = "returned" /\ gen.lo >= 1 /\ Blanks(before) >= gen.times =>
        /\ Cardinality(ChangedCells) = gen.times
        /\ \A c \in ChangedCells :
              At(before, c) = BLANK /\ At(board, c) \in gen.lo..(gen.hi - 1)
        /\ \A c \in Cells(before) : At(before, c) # BLANK => At(board, c) = At(before, c)
        /\ board.size = before.size
        /\ board.score = before.score

\* a returned call that placed two tiles on a board that had tiles already
C14_Witness ==
    /\ pc = "returned"
    /\ gen.lo >= 1
    /\ gen.times = 2
    /\ HasTile(before)
    /\ Cardinality(ChangedCells) = 2

(***************************************************************************)
(* C18: generate(times, [lo, hi)) with lo >= 1 terminates, under fair      *)
(* sampling, when the board has at least `times` empty cells, and never    *)
(* terminates when it has fewer.                                           *)
(***************************************************************************)
C18_GenerateTermination ==
    /\ [](gen.lo >= 1 /\ Blanks(before) < gen.times => pc # "returned")
    /\ [](gen.lo >= 1 /\ Blanks(before) >= gen.times => <>(pc = "returned"))

\* a call that placed one tile, has one more to place and finds no blank cell
C18_Witness ==
    /\ pc = "gen"
    /\ gen.lo >= 1
    /\ gen.times = 2
    /\ gen.left = 1
    /\ Blanks(board) = 0

(***************************************************************************)
(* C15: Board::new never constructs a board whose grid is not exactly size *)
(* rows of size cells (a flat vector of another length fails instead).     *)
(***************************************************************************)
Square(b) ==
    /\ Len(b.tiles) = b.size
    /\ \A i \in DOMAIN b.tiles : Len(b.tiles[i]) = b.size

C15_OnlySquareBoards == op = "new" => Square(board)

(***************************************************************************)
(* C16: every trace (from, to) returned by shift has from # to and both    *)
(* coordinates inside [0, size) x [0, size).                               *)
(***************************************************************************)
C16_TracesWellFormed ==
    op = "shift" =>
        \A i \in DOMAIN traces :
            /\ traces[i][1] # traces[i][2]
            /\ traces[i][1] \in Cells(board)
            /\ traces[i][2] \in Cells(board)

\* a shift of a 3x3 board that returned a slide trace and a merge trace
C16_Witness ==
    /\ op = "shift"
    /\ board.size = 3
    /\ \E i, j \in DOMAIN traces : kinds[i] = "slide" /\ kinds[j] = "merge"

(***************************************************************************)
(* C17: blocked means stop.  The procedure that returns as soon as the     *)
(* current cell and its neighbour hold different non-zero tiles gives the  *)
(* same board, score and traces as the code's, which keeps walking to the  *)
(* edge.                                                                   *)
(***************************************************************************)
RECURSIVE StopWhenBlockedLoop(_, _, _, _)
\* DoShiftLoop but for the blocked case, where it returns
StopWhenBlockedLoop(st, tile, no_swapped, direction) ==
    LET nx == NextCell(st.board, tile, direction)
    IN IF nx = None THEN st
       ELSE LET next_tile == Unwrap(nx)
                tile_val == Unwrap(Get(st.board, tile))
                next_tile_val == Unwrap(Get(st.board, next_tile))
            IN IF tile_val # BLANK /\ next_tile_val = BLANK
               THEN StopWhenBlockedLoop(
                        SlideStep(st, tile, next_tile, tile_val, no_swapped),
                        next_tile, TRUE, direction)
               ELSE IF tile_val # BLANK /\ tile_val = next_tile_val
               THEN StopWhenBlockedLoop(MergeStep(st, tile, next_tile, tile_val),
                                        next_tile, FALSE, direction)
               ELSE IF tile_val # BLANK
               THEN st
               ELSE StopWhenBlockedLoop(st, next_tile, no_swapped, direction)

RECURSIVE StopWhenBlockedFrom(_, _, _)
\* ShiftFrom over StopWhenBlockedLoop
StopWhenBlockedFrom(st, direction, k) ==
    IF k > st.board.size * st.board.size THEN st
    ELSE LET t == StopWhenBlockedLoop(
                      [st EXCEPT !.traces = << >>, !.kinds = << >>],
                      SweepCell(st.board.size, direction, k), FALSE, direction)
         IN StopWhenBlockedFrom([t EXCEPT !.traces = st.traces \o t.traces,
                                          !.kinds  = st.kinds \o t.kinds],
                                direction, k + 1)

StopWhenBlockedShift(b, direction) ==
    StopWhenBlockedFrom([board |-> b, traces |-> << >>, merges |-> << >>,
                         fresh |-> {}, kinds |-> << >>],
                        direction, 1)

C17_BlockedMeansStop ==
    op = "shift" =>
        /\ board = StopWhenBlockedShift(before, dir).board
        /\ traces = StopWhenBlockedShift(before, dir).traces

\* a tile slid next to a different tile, where its walker was blocked
C17_Witness ==
    /\ op = "shift"
    /\ \E i \in DOMAIN traces :
         LET nx == NextCell(board, traces[i][2], dir)
         IN /\ kinds[i] = "slide"
            /\ nx # None
            /\ At(board, traces[i][2]) # BLANK
            /\ At(board, Unwrap(nx)) \notin {BLANK, At(board, traces[i][2])}

C20_ShiftIdempotent ==
    op = "shift" =>
        /\ shift(board, dir).traces = << >>
        /\ shift(board, dir).board = board

\* the first shift slid a tile over more than one cell and merged twice
C20_Witness ==
    /\ op = "shift"
    /\ Len(merges) >= 2
    /\ \E i \in DOMAIN traces :
         /\ kinds[i] = "slide"
         /\ NextCell(board, traces[i][1], dir) # Some(traces[i][2])

====
